---- MODULE Spec2Model ----
(***************************************************************************)
(* A model of scripts/generate_appcast.py: the script that fetches the     *)
(* GitHub releases of YTAudioBar and writes the Sparkle feed appcast.xml.  *)
(*                                                                         *)
(* Python strings are sequences of one-character strings, except the text  *)
(* the script only copies (URLs, dates, release notes), which is kept as   *)
(* one token.  Python's None is the sequence None (for strings) or the     *)
(* record NoAsset (for an asset).                                          *)
(***************************************************************************)
EXTENDS Naturals, Sequences, FiniteSets

VARIABLES
    releases,       \* the JSON array the releases endpoint answers with
    fetch_outcome,  \* how urlopen/json.loads of the release list ends
    private_key,    \* os.environ.get('SPARKLE_PRIVATE_KEY')
    pc,             \* position of the (single) thread of control
    fetched,        \* number of requests made for the release list
    idx,            \* number of releases the loop of generate_appcast has taken
    item,           \* the item create_appcast_item is building
    result,         \* what subprocess.run returned in sign_dmg
    channel,        \* the items appended to <channel>, in order
    sign_log,       \* per appended item: how sign_dmg ended for it
    tmp_files,      \* temporary .dmg files that exist on disk
    stderr,         \* the diagnostic stream
    appcast_before, \* appcast.xml as the invocation found it
    appcast,        \* appcast.xml now
    exit_code,      \* exit status of the process: <<>> while it runs, then <<0>> or <<1>>
    tag_name,       \* argument of parse_version / parse_build_number
    parsed,         \* what the item builder derived from tag_name
    assets,         \* argument of get_dmg_asset
    dmg_asset,      \* what get_dmg_asset returned
    called          \* whether the function under study has returned

mainVars == <<releases, fetch_outcome, private_key, pc, fetched, idx, item, result,
              channel, sign_log, tmp_files, stderr, appcast_before, appcast, exit_code>>
funVars == <<tag_name, parsed, assets, dmg_asset, called>>
vars == <<mainVars, funVars>>

-----------------------------------------------------------------------------
(* Bounds of the model *)

MaxReleases == 2
MaxTagLen == 7
MaxAssets == 3

-----------------------------------------------------------------------------
(* Python values and string functions *)

None == <<"<None>">>

NoAsset == [name |-> None, browser_download_url |-> None, size |-> 0]

SeqsUpTo(S, n) == UNION {[1..k -> S] : k \in 0..n}

\* str.endswith
EndsWith(s, suffix) ==
    /\ Len(s) >= Len(suffix)
    /\ SubSeq(s, Len(s) - Len(suffix) + 1, Len(s)) = suffix

\* str.lstrip(chars)
RECURSIVE LStrip(_, _)
LStrip(s, chars) ==
    IF s # <<>> /\ Head(s) \in chars THEN LStrip(Tail(s), chars) ELSE s

\* str.rstrip(chars)
RECURSIVE RStrip(_, _)
RStrip(s, chars) ==
    IF s # <<>> /\ s[Len(s)] \in chars THEN RStrip(SubSeq(s, 1, Len(s) - 1), chars) ELSE s

Whitespace == {" ", "\n"}

\* str.strip()
Strip(s) == RStrip(LStrip(s, Whitespace), Whitespace)

\* the positions where sep occurs in s
Occurrences(s, sep) ==
    {i \in 1..(Len(s) + 1 - Len(sep)) : SubSeq(s, i, i + Len(sep) - 1) = sep}

\* sep in s
Contains(s, sep) == Occurrences(s, sep) # {}

\* str.split(sep): the parts between the occurrences of sep, left to right
RECURSIVE Split(_, _)
Split(s, sep) ==
    IF Occurrences(s, sep) = {} THEN <<s>>
    ELSE LET i == CHOOSE k \in Occurrences(s, sep) :
                      \A m \in Occurrences(s, sep) : k <= m
         IN <<SubSeq(s, 1, i - 1)>> \o Split(SubSeq(s, i + Len(sep), Len(s)), sep)

-----------------------------------------------------------------------------
(* The pure functions of the script *)

get_dmg_asset_last(as) ==
    IF \E i \in 1..Len(as) : EndsWith(as[i].name, <<".", "d", "m", "g">>)
    THEN as[CHOOSE i \in 1..Len(as) :
                /\ EndsWith(as[i].name, <<".", "d", "m", "g">>)
                /\ \A j \in (i + 1)..Len(as) : ~EndsWith(as[j].name, <<".", "d", "m", "g">>)]
    ELSE NoAsset

RECURSIVE get_dmg_asset(_)
get_dmg_asset(as) ==
    IF as = <<>> THEN NoAsset
    ELSE IF EndsWith(Head(as).name, <<".", "d", "m", "g">>) THEN Head(as)
    ELSE get_dmg_asset(Tail(as))

parse_version_one(tag) ==
    IF tag # <<>> /\ Head(tag) = "v" THEN Tail(tag) ELSE tag

parse_version(tag) == LStrip(tag, {"v"})

parse_build_number_first(tag) ==
    LET parts == Split(parse_version(tag), <<".">>)
    IN  IF parts # <<>> THEN parts[1] ELSE parse_version(tag)

parse_build_number(tag) ==
    LET version == parse_version(tag)
        parts == Split(version, <<".">>)
    IN  IF parts # <<>> THEN parts[Len(parts)] ELSE version

\* The attributes create_appcast_item derives from the tag name
VersionFields(tag) ==
    [title |-> <<"V", "e", "r", "s", "i", "o", "n", " ">> \o parse_version(tag),
     version |-> parse_build_number(tag),
     shortVersionString |-> parse_version(tag)]

-----------------------------------------------------------------------------
(* The inputs: release records as the releases endpoint returns them *)

Dmg(n) == [name |-> <<n, ".", "d", "m", "g">>,
           browser_download_url |-> <<"https://github.com/dl/", n, ".dmg">>,
           size |-> 1024]

Zip(n) == [name |-> <<n, ".", "z", "i", "p">>,
           browser_download_url |-> <<"https://github.com/dl/", n, ".zip">>,
           size |-> 2048]

GoodDate == <<"2024-03-05T10:20:30Z">>
BadDate == <<"2024-03-05">>
EscapeChar == "\\x1b"

Release(tag, date, body, draft, prerelease, as) ==
    [tag_name |-> tag, published_at |-> date, html_url |-> <<"https://github.com/tag/">> \o tag,
     body |-> body, draft |-> draft, prerelease |-> prerelease, assets |-> as]

V108 == <<"v", "1", ".", "0", ".", "8">>
V215 == <<"v", "2", ".", "1", ".", "5">>

ReleaseSamples ==
    { Release(V215, GoodDate, <<"Bug fixes">>, FALSE, FALSE, <<Zip("a"), Dmg("a"), Dmg("b")>>),
      Release(V108, GoodDate, None, FALSE, FALSE, <<Dmg("c")>>),
      Release(V108, GoodDate, <<>>, FALSE, FALSE, <<Zip("d")>>),
      Release(V215, None, <<"Draft">>, TRUE, FALSE, <<Dmg("e")>>),
      Release(V215, GoodDate, <<"Beta">>, FALSE, TRUE, <<Dmg("f")>>),
      Release(V108, BadDate, <<"Notes">>, FALSE, FALSE, <<Dmg("g")>>),
      Release(V108, GoodDate, <<"Log ", EscapeChar, "[0m">>, FALSE, FALSE, <<Dmg("h")>>) }

\* sign_update's exit status and standard output; "sparkle:edSignature=" is one token
Marker == "sparkle:edSignature="

SignResults ==
    { [returncode |-> 1, stdout |-> <<>>],
      [returncode |-> 0, stdout |-> <<Marker, "\"", "SIG", "\"", " ", "length=", "\"", "1024", "\"", "\n">>],
      [returncode |-> 0, stdout |-> <<"\n">>],
      [returncode |-> 0, stdout |-> <<Marker, "\"", "\"", "\n">>],
      [returncode |-> 0, stdout |-> <<Marker, "SIG", "\n">>] }

NoResult == [returncode |-> 0, stdout |-> None]

-----------------------------------------------------------------------------
(* Item construction *)

\* Python truthiness of an optional string
Truthy(s) == s # None /\ s # <<>>

\* datetime.strptime(published_at, '%Y-%m-%dT%H:%M:%SZ') succeeds
ValidTimestamp(ts) == ts = GoodDate

\* strptime followed by strftime('%a, %d %b %Y %H:%M:%S +0000')
Rfc822(ts) == IF ts = GoodDate THEN <<"Tue, 05 Mar 2024 10:20:30 +0000">> ELSE None

SkippedDraftOnly(release) == release.draft

\* generate_appcast leaves the release out before looking at it
Skipped(release) == release.draft \/ release.prerelease

NoItem == [title |-> None, pubDate |-> None, link |-> None, description |-> None,
           url |-> None, length |-> 0, type |-> None, version |-> None,
           shortVersionString |-> None, edSignature |-> None,
           minimumSystemVersion |-> None]

\* create_appcast_item up to the enclosure, before signing
BaseItem(release) ==
    LET asset == get_dmg_asset(release.assets)
        fields == VersionFields(release.tag_name)
    IN  [title |-> fields.title,
         pubDate |-> Rfc822(release.published_at),
         link |-> release.html_url,
         description |-> <<"<![CDATA[">>
                         \o (IF Truthy(release.body) THEN release.body
                             ELSE <<"No release notes provided.">>)
                         \o <<"]]>">>,
         url |-> asset.browser_download_url,
         length |-> asset.size,
         type |-> <<"application/octet-stream">>,
         version |-> fields.version,
         shortVersionString |-> fields.shortVersionString,
         edSignature |-> None,
         minimumSystemVersion |-> <<"14.0">>]

\* minidom.parseString accepts the text tostring produced for the item
XmlParses(it) == \A i \in 1..Len(it.description) : it.description[i] # EscapeChar

Absent == [kind |-> "absent", items |-> <<>>]
Previous == [kind |-> "previous", items |-> <<>>]
Truncated == [kind |-> "empty", items |-> <<>>]
Document(items) == [kind |-> "document", items |-> items]

Msg(text, at) == [text |-> text, at |-> at]

-----------------------------------------------------------------------------
(* The run of the script: main, generate_appcast, create_appcast_item, sign_dmg *)

FunIdle ==
    /\ tag_name = <<>>
    /\ parsed = VersionFields(<<>>)
    /\ assets = <<>>
    /\ dmg_asset = NoAsset
    /\ called = FALSE

Init ==
    /\ fetch_outcome \in {"ok", "URLError", "other"}
    /\ releases \in (IF fetch_outcome = "ok" THEN SeqsUpTo(ReleaseSamples, MaxReleases)
                     ELSE {<<>>})
    /\ private_key \in {None, <<>>, <<"KEY">>}
    /\ appcast_before \in {Absent, Previous}
    /\ appcast = appcast_before
    /\ pc = "main"
    /\ fetched = 0
    /\ idx = 0
    /\ item = NoItem
    /\ result = NoResult
    /\ channel = <<>>
    /\ sign_log = <<>>
    /\ tmp_files = 0
    /\ stderr = <<>>
    /\ exit_code = <<>>
    /\ FunIdle

\* An exception nobody catches: the interpreter prints the traceback and exits 1
Uncaught ==
    /\ stderr' = Append(stderr, Msg("Traceback (most recent call last)", idx + 1))
    /\ exit_code' = <<1>>
    /\ pc' = "exited"

\* main up to the call of generate_appcast
MainStart ==
    /\ pc = "main"
    /\ stderr' = Append(stderr,
                        IF Truthy(private_key)
                        THEN Msg("Using private key for EdDSA signing", 0)
                        ELSE Msg("Warning: No SPARKLE_PRIVATE_KEY found", 0))
    /\ pc' = "fetch"
    /\ UNCHANGED <<releases, fetch_outcome, private_key, fetched, idx, item, result,
                   channel, sign_log, tmp_files, appcast_before, appcast, exit_code, funVars>>

\* fetch_github_releases returns the parsed list; generate_appcast builds the channel
FetchOk ==
    /\ pc = "fetch"
    /\ fetch_outcome = "ok"
    /\ fetched' = fetched + 1
    /\ pc' = "loop"
    /\ UNCHANGED <<releases, fetch_outcome, private_key, idx, item, result, channel,
                   sign_log, tmp_files, stderr, appcast_before, appcast, exit_code, funVars>>

FetchURLErrorSwallowed ==
    /\ pc = "fetch"
    /\ fetch_outcome = "URLError"
    /\ fetched' = fetched + 1
    /\ stderr' = Append(stderr, Msg("Error fetching releases", 0))
    /\ pc' = "loop"
    /\ UNCHANGED <<releases, fetch_outcome, private_key, idx, item, result, channel,
                   sign_log, tmp_files, appcast_before, appcast, exit_code, funVars>>

\* urlopen raises URLError (HTTPError included): reported, then sys.exit(1)
FetchURLError ==
    /\ pc = "fetch"
    /\ fetch_outcome = "URLError"
    /\ fetched' = fetched + 1
    /\ stderr' = Append(stderr, Msg("Error fetching releases", 0))
    /\ exit_code' = <<1>>
    /\ pc' = "exited"
    /\ UNCHANGED <<releases, fetch_outcome, private_key, idx, item, result, channel,
                   sign_log, tmp_files, appcast_before, appcast, funVars>>

\* the request fails with an exception that is no URLError (a reset connection
\* while reading, a body that is no JSON): nothing catches it
FetchOtherError ==
    /\ pc = "fetch"
    /\ fetch_outcome = "other"
    /\ fetched' = fetched + 1
    /\ Uncaught
    /\ UNCHANGED <<releases, fetch_outcome, private_key, idx, item, result, channel,
                   sign_log, tmp_files, appcast_before, appcast, funVars>>

InLoop == pc = "loop" /\ idx < Len(releases)

\* create_appcast_item returns to generate_appcast, which appends the item
AppendItem(it, how) ==
    /\ channel' = Append(channel, it)
    /\ sign_log' = Append(sign_log, [how |-> how, release |-> idx + 1])
    /\ idx' = idx + 1
    /\ item' = NoItem
    /\ result' = NoResult
    /\ pc' = "loop"

\* the release is a draft or a prerelease: continue
LoopSkip ==
    /\ InLoop
    /\ Skipped(releases[idx + 1])
    /\ idx' = idx + 1
    /\ UNCHANGED <<releases, fetch_outcome, private_key, pc, fetched, item, result, channel,
                   sign_log, tmp_files, stderr, appcast_before, appcast, exit_code, funVars>>

\* create_appcast_item finds no .dmg asset and returns None
LoopNoAsset ==
    /\ InLoop
    /\ ~Skipped(releases[idx + 1])
    /\ get_dmg_asset(releases[idx + 1].assets) = NoAsset
    /\ idx' = idx + 1
    /\ UNCHANGED <<releases, fetch_outcome, private_key, pc, fetched, item, result, channel,
                   sign_log, tmp_files, stderr, appcast_before, appcast, exit_code, funVars>>

BuildItemRaisesDropped ==
    /\ InLoop
    /\ ~Skipped(releases[idx + 1])
    /\ get_dmg_asset(releases[idx + 1].assets) # NoAsset
    /\ ~ValidTimestamp(releases[idx + 1].published_at)
    /\ idx' = idx + 1
    /\ UNCHANGED <<releases, fetch_outcome, private_key, pc, fetched, item, result, channel,
                   sign_log, tmp_files, stderr, appcast_before, appcast, exit_code, funVars>>

\* strptime raises on published_at (ValueError, or TypeError for null)
BuildItemRaises ==
    /\ InLoop
    /\ ~Skipped(releases[idx + 1])
    /\ get_dmg_asset(releases[idx + 1].assets) # NoAsset
    /\ ~ValidTimestamp(releases[idx + 1].published_at)
    /\ Uncaught
    /\ UNCHANGED <<releases, fetch_outcome, private_key, fetched, idx, item, result, channel,
                   sign_log, tmp_files, appcast_before, appcast, funVars>>

\* no private key: the item is complete without a signature
BuildItemUnsigned ==
    /\ InLoop
    /\ ~Skipped(releases[idx + 1])
    /\ get_dmg_asset(releases[idx + 1].assets) # NoAsset
    /\ ValidTimestamp(releases[idx + 1].published_at)
    /\ ~Truthy(private_key)
    /\ AppendItem(BaseItem(releases[idx + 1]), "not called")
    /\ UNCHANGED <<releases, fetch_outcome, private_key, fetched, tmp_files, stderr,
                   appcast_before, appcast, exit_code, funVars>>

\* a private key: create_appcast_item calls sign_dmg
BuildItemForSigning ==
    /\ InLoop
    /\ ~Skipped(releases[idx + 1])
    /\ get_dmg_asset(releases[idx + 1].assets) # NoAsset
    /\ ValidTimestamp(releases[idx + 1].published_at)
    /\ Truthy(private_key)
    /\ item' = BaseItem(releases[idx + 1])
    /\ pc' = "download"
    /\ UNCHANGED <<releases, fetch_outcome, private_key, fetched, idx, result, channel,
                   sign_log, tmp_files, stderr, appcast_before, appcast, exit_code, funVars>>

\* create_appcast_item after sign_dmg returned: attach the signature if there is
\* one, add the minimum system version, return the item (which is then appended)
FinishItem(signature, how, printed) ==
    /\ AppendItem(IF Truthy(signature) THEN [item EXCEPT !.edSignature = signature] ELSE item,
                  how)
    /\ stderr' = stderr \o printed
                 \o (IF Truthy(signature) THEN <<Msg("Signed", idx + 1)>> ELSE <<>>)
    /\ UNCHANGED exit_code

SignDmgReraise(how) ==
    /\ Uncaught
    /\ UNCHANGED <<channel, sign_log, idx, item, result>>

\* sign_dmg's handler: any Exception is reported as a warning and None returned
SignDmgExcept(how) ==
    FinishItem(None, how, <<Msg("Warning: Failed to sign DMG", idx + 1)>>)

\* the temporary file is created and the asset downloaded into it
DownloadOk ==
    /\ pc = "download"
    /\ tmp_files' = tmp_files + 1
    /\ pc' = "sign"
    /\ UNCHANGED <<releases, fetch_outcome, private_key, fetched, idx, item, result, channel,
                   sign_log, stderr, appcast_before, appcast, exit_code, funVars>>

\* the temporary file is created (delete=False), then urlopen or read raises
DownloadFails ==
    /\ pc = "download"
    /\ tmp_files' = tmp_files + 1
    /\ SignDmgExcept("download error")
    /\ UNCHANGED <<releases, fetch_outcome, private_key, fetched, appcast_before, appcast,
                   funVars>>

\* subprocess.run(['./sign_update', tmp_path], ...) returns a CompletedProcess,
\* as the code that follows the call expects
SignRunReturns ==
    /\ pc = "sign"
    /\ \E r \in SignResults : result' = r
    /\ pc' = "unlink"
    /\ UNCHANGED <<releases, fetch_outcome, private_key, fetched, idx, item, channel,
                   sign_log, tmp_files, stderr, appcast_before, appcast, exit_code, funVars>>

\* subprocess.run raises: no ./sign_update to start (FileNotFoundError), or the
\* bytes given as input to a text-mode pipe (AttributeError in CPython)
SignRunRaises ==
    /\ pc = "sign"
    /\ SignDmgExcept("run error")
    /\ UNCHANGED <<releases, fetch_outcome, private_key, fetched, tmp_files, appcast_before,
                   appcast, funVars>>

\* os.unlink(tmp_path)
UnlinkOk ==
    /\ pc = "unlink"
    /\ tmp_files' = tmp_files - 1
    /\ pc' = "extract"
    /\ UNCHANGED <<releases, fetch_outcome, private_key, fetched, idx, item, result, channel,
                   sign_log, stderr, appcast_before, appcast, exit_code, funVars>>

\* os.unlink raises OSError
UnlinkFails ==
    /\ pc = "unlink"
    /\ SignDmgExcept("unlink error")
    /\ UNCHANGED <<releases, fetch_outcome, private_key, fetched, tmp_files, appcast_before,
                   appcast, funVars>>

\* result.stdout.strip()
Output == Strip(result.stdout)

\* exit status 0 and the marker followed by a quoted token: the token is returned
ExtractSignature ==
    /\ pc = "extract"
    /\ result.returncode = 0
    /\ Contains(Output, <<Marker>>)
    /\ Len(Split(Output, <<Marker, "\"">>)) >= 2
    /\ FinishItem(Split(Split(Output, <<Marker, "\"">>)[2], <<"\"">>)[1], "returned", <<>>)
    /\ UNCHANGED <<releases, fetch_outcome, private_key, fetched, tmp_files, appcast_before,
                   appcast, funVars>>

\* exit status 0 and the marker, but no quote after it: [1] raises IndexError
ExtractIndexError ==
    /\ pc = "extract"
    /\ result.returncode = 0
    /\ Contains(Output, <<Marker>>)
    /\ Len(Split(Output, <<Marker, "\"">>)) < 2
    /\ SignDmgExcept("index error")
    /\ UNCHANGED <<releases, fetch_outcome, private_key, fetched, tmp_files, appcast_before,
                   appcast, funVars>>

\* exit status 0 and no marker in the output: falls through to return None
ExtractNoMarker ==
    /\ pc = "extract"
    /\ result.returncode = 0
    /\ ~Contains(Output, <<Marker>>)
    /\ FinishItem(None, "no marker", <<>>)
    /\ UNCHANGED <<releases, fetch_outcome, private_key, fetched, tmp_files, appcast_before,
                   appcast, funVars>>

\* a non-zero exit status: the warning of the else branch, then return None
ExtractNonZero ==
    /\ pc = "extract"
    /\ result.returncode # 0
    /\ FinishItem(None, "nonzero exit", <<Msg("Warning: Failed to sign DMG", idx + 1)>>)
    /\ UNCHANGED <<releases, fetch_outcome, private_key, fetched, tmp_files, appcast_before,
                   appcast, funVars>>

LoopDone == pc = "loop" /\ idx = Len(releases)

\* tostring, minidom.parseString and toprettyxml succeed
SerializeOk ==
    /\ LoopDone
    /\ \A k \in 1..Len(channel) : XmlParses(channel[k])
    /\ pc' = "open"
    /\ UNCHANGED <<releases, fetch_outcome, private_key, fetched, idx, item, result, channel,
                   sign_log, tmp_files, stderr, appcast_before, appcast, exit_code, funVars>>

\* minidom.parseString raises ExpatError on a character XML does not allow
SerializeRaises ==
    /\ LoopDone
    /\ \E k \in 1..Len(channel) : ~XmlParses(channel[k])
    /\ Uncaught
    /\ UNCHANGED <<releases, fetch_outcome, private_key, fetched, idx, item, result, channel,
                   sign_log, tmp_files, appcast_before, appcast, funVars>>

OpenFileKeeping ==
    /\ pc = "open"
    /\ pc' = "write"
    /\ UNCHANGED <<releases, fetch_outcome, private_key, fetched, idx, item, result, channel,
                   sign_log, tmp_files, stderr, appcast_before, appcast, exit_code, funVars>>

\* open('appcast.xml', 'w'): the file is created, or truncated to nothing
OpenFile ==
    /\ pc = "open"
    /\ appcast' = Truncated
    /\ pc' = "write"
    /\ UNCHANGED <<releases, fetch_outcome, private_key, fetched, idx, item, result, channel,
                   sign_log, tmp_files, stderr, appcast_before, exit_code, funVars>>

\* f.write(appcast_xml), the file is closed, main returns
WriteFile ==
    /\ pc = "write"
    /\ appcast' = Document(channel)
    /\ stderr' = Append(stderr, Msg("appcast.xml generated successfully!", 0))
    /\ exit_code' = <<0>>
    /\ pc' = "exited"
    /\ UNCHANGED <<releases, fetch_outcome, private_key, fetched, idx, item, result, channel,
                   sign_log, tmp_files, appcast_before, funVars>>

Next ==
    \/ MainStart
    \/ FetchOk
    \/ FetchURLError
    \/ FetchOtherError
    \/ LoopSkip
    \/ LoopNoAsset
    \/ BuildItemRaises
    \/ BuildItemUnsigned
    \/ BuildItemForSigning
    \/ DownloadOk
    \/ DownloadFails
    \/ SignRunReturns
    \/ SignRunRaises
    \/ UnlinkOk
    \/ UnlinkFails
    \/ ExtractSignature
    \/ ExtractIndexError
    \/ ExtractNoMarker
    \/ ExtractNonZero
    \/ SerializeOk
    \/ SerializeRaises
    \/ OpenFile
    \/ WriteFile

Spec == Init /\ [][Next]_vars

-----------------------------------------------------------------------------
(* The pure functions on their own: every tag name and every asset list up  *)
(* to the bounds                                                            *)

MainIdle ==
    /\ fetch_outcome = "ok"
    /\ releases = <<>>
    /\ private_key = None
    /\ appcast_before = Absent
    /\ appcast = Absent
    /\ pc = "idle"
    /\ fetched = 0
    /\ idx = 0
    /\ item = NoItem
    /\ result = NoResult
    /\ channel = <<>>
    /\ sign_log = <<>>
    /\ tmp_files = 0
    /\ stderr = <<>>
    /\ exit_code = <<>>

TagChars == {"v", "1", "2", "."}

InitTag ==
    /\ MainIdle
    /\ tag_name \in SeqsUpTo(TagChars, MaxTagLen)
    /\ parsed = VersionFields(<<>>)
    /\ assets = <<>>
    /\ dmg_asset = NoAsset
    /\ called = FALSE

\* create_appcast_item derives title, sparkle:version and
\* sparkle:shortVersionString from release['tag_name']
ParseTag ==
    /\ ~called
    /\ parsed' = VersionFields(tag_name)
    /\ called' = TRUE
    /\ UNCHANGED <<mainVars, tag_name, assets, dmg_asset>>

NextTag == ParseTag

SpecTag == InitTag /\ [][NextTag]_vars

AssetNames ==
    { <<"a", ".", "d", "m", "g">>, <<"b", ".", "d", "m", "g">>, <<"a", ".", "z", "i", "p">>,
      <<".", "d", "m", "g">>, <<"d", "m", "g">>, <<"a", ".", "d", "m", "g", ".", "z", "i", "p">> }

Asset(n) == [name |-> n, browser_download_url |-> <<"https://github.com/dl/">> \o n,
             size |-> Len(n)]

InitAssets ==
    /\ MainIdle
    /\ assets \in SeqsUpTo({Asset(n) : n \in AssetNames}, MaxAssets)
    /\ dmg_asset = NoAsset
    /\ tag_name = <<>>
    /\ parsed = VersionFields(<<>>)
    /\ called = FALSE

\* dmg_asset = get_dmg_asset(release['assets'])
SelectAsset ==
    /\ ~called
    /\ dmg_asset' = get_dmg_asset(assets)
    /\ called' = TRUE
    /\ UNCHANGED <<mainVars, tag_name, parsed, assets>>

NextAssets == SelectAsset

SpecAssets == InitAssets /\ [][NextAssets]_vars

-----------------------------------------------------------------------------
(* Properties *)

IsDmgName(n) == EndsWith(n, <<".", "d", "m", "g">>)

DmgPositions(as) == {i \in 1..Len(as) : IsDmgName(as[i].name)}

Qualifies(r) == ~r.draft /\ ~r.prerelease /\ DmgPositions(r.assets) # {}

WithoutSignature(it) == [it EXCEPT !.edSignature = None]

\* items is, item by item and in order, what the releases rs give
ItemsOf(items, rs) ==
    /\ Len(items) = Len(rs)
    /\ \A k \in 1..Len(items) :
          /\ WithoutSignature(items[k]) = BaseItem(rs[k])
          /\ \E i \in DmgPositions(rs[k].assets) :
                items[k].url = rs[k].assets[i].browser_download_url

FetchDone == fetch_outcome = "ok" /\ pc \notin {"main", "fetch"}

LoopFinished == pc \in {"open", "write"} \/ exit_code = <<0>>

\* C1: the items appended to the channel are exactly the releases taken so far
\* that are neither draft nor prerelease and have an asset named *.dmg, in the
\* order of the response; once the loop has finished they are those of the
\* whole response, and so is the written document.
C1_ItemsAreQualifyingReleases ==
    /\ FetchDone => ItemsOf(channel, SelectSeq(SubSeq(releases, 1, idx), Qualifies))
    /\ LoopFinished => ItemsOf(channel, SelectSeq(releases, Qualifies))
    /\ appcast.kind = "document" => ItemsOf(appcast.items, SelectSeq(releases, Qualifies))

C1_Witness ==
    /\ exit_code = <<0>>
    /\ Len(releases) = 2
    /\ releases[1].prerelease /\ DmgPositions(releases[1].assets) # {}
    /\ Len(channel) = 1
    /\ channel[1].link = releases[2].html_url

SignFailures ==
    {"download error", "run error", "unlink error", "nonzero exit", "index error", "no marker"}

SignFailed == \E k \in 1..Len(sign_log) : sign_log[k].how \in SignFailures

\* the process ended on the exception a release record raised outside sign_dmg:
\* strptime on published_at, or parseString on the serialised items
StoppedByRecord ==
    /\ exit_code = <<1>>
    /\ \/ idx < Len(releases) /\ ~ValidTimestamp(releases[idx + 1].published_at)
       \/ idx = Len(releases) /\ \E k \in 1..Len(channel) : ~XmlParses(channel[k])

\* C2: with a private key, when the download or the signing of a release fails
\* (download error, sign_update not starting, temp-file removal failing,
\* non-zero exit, no usable marker), its item is still returned and appended,
\* without a signature; the process never ends inside sign_dmg; and the run
\* goes on through the remaining releases to write appcast.xml and exit 0,
\* unless a release record itself raises outside sign_dmg.
C2_SigningFailureIsNotFatal ==
    /\ \A k \in 1..Len(sign_log) :
          sign_log[k].how \in SignFailures =>
             /\ channel[k].edSignature = None
             /\ channel[k] = BaseItem(releases[sign_log[k].release])
    /\ pc = "exited" => item = NoItem
    /\ pc \in {"download", "sign", "unlink", "extract"} => exit_code = <<>>
    /\ (pc = "exited" /\ SignFailed) =>
          \/ exit_code = <<0>> /\ idx = Len(releases) /\ appcast = Document(channel)
          \/ StoppedByRecord

C2_Witness ==
    /\ exit_code = <<0>>
    /\ Len(channel) = 2
    /\ sign_log[1].how = "nonzero exit"
    /\ sign_log[2].how = "returned"
    /\ channel[1].edSignature = None
    /\ channel[2].edSignature = <<"SIG">>
    /\ appcast = Document(channel)

\* C3: a failure of the request for the release list is fatal: the request is
\* made once, the error is reported, the exit status is non-zero, no item is
\* built, nothing is downloaded or signed and appcast.xml is left as it was;
\* the exit status is 0 only after a successful fetch.
C3_FetchFailureIsFatal ==
    /\ fetched <= 1
    /\ exit_code = <<0>> => fetch_outcome = "ok"
    /\ fetch_outcome # "ok" => pc \in {"main", "fetch", "exited"}
    /\ (fetch_outcome # "ok" /\ pc = "exited") =>
          /\ fetched = 1
          /\ exit_code = <<1>>
          /\ \E m \in 1..Len(stderr) :
                stderr[m].text \in {"Error fetching releases", "Traceback (most recent call last)"}
          /\ channel = <<>> /\ sign_log = <<>> /\ item = NoItem
          /\ tmp_files = 0
          /\ appcast = appcast_before

C3_Witness ==
    /\ pc = "exited"
    /\ fetch_outcome = "URLError"
    /\ exit_code = <<1>>
    /\ Truthy(private_key)
    /\ appcast = Previous

\* C4 as stated: appcast.xml always holds either what the invocation found
\* (or is absent) or the complete new document.
C4_AtomicWrite ==
    \/ appcast = appcast_before
    \/ appcast = Document(channel) /\ LoopFinished

\* C4 amended: appcast.xml is as the invocation found it until it is opened,
\* empty from the open until the write has finished, and the complete new
\* document afterwards; a run that exits non-zero leaves it untouched.
C4_TruncateThenWrite ==
    /\ pc \in {"main", "fetch", "loop", "download", "sign", "unlink", "extract", "open"}
          => appcast = appcast_before
    /\ pc = "write" => appcast = Truncated
    /\ exit_code = <<0>> => appcast = Document(channel)
    /\ exit_code = <<1>> => appcast = appcast_before

C4_Witness ==
    /\ pc = "write"
    /\ appcast_before = Previous
    /\ appcast = Truncated
    /\ Len(channel) >= 1

Digits == {"0", "1", "2", "3", "4", "5", "6", "7", "8", "9"}

IsNumber(s) == s # <<>> /\ \A i \in 1..Len(s) : s[i] \in Digits

\* C5: for a tag name vX.Y.Z with X, Y, Z non-empty digit strings, the version
\* string is X.Y.Z and the build number is Z, so the item has title
\* "Version X.Y.Z", sparkle:shortVersionString X.Y.Z and sparkle:version Z.
C5_VersionAndBuildOfVXYZ ==
    called =>
       \A i, j \in 1..Len(tag_name) :
          ( /\ tag_name[1] = "v"
            /\ i < j
            /\ tag_name[i] = "." /\ tag_name[j] = "."
            /\ IsNumber(SubSeq(tag_name, 2, i - 1))
            /\ IsNumber(SubSeq(tag_name, i + 1, j - 1))
            /\ IsNumber(SubSeq(tag_name, j + 1, Len(tag_name))) )
          => /\ parsed.shortVersionString = SubSeq(tag_name, 2, Len(tag_name))
             /\ parsed.version = SubSeq(tag_name, j + 1, Len(tag_name))
             /\ parsed.title = <<"V", "e", "r", "s", "i", "o", "n", " ">>
                               \o SubSeq(tag_name, 2, Len(tag_name))

C5_Witness ==
    /\ called
    /\ tag_name = <<"v", "1", "2", ".", "1", ".", "2">>
    /\ parsed.shortVersionString = <<"1", "2", ".", "1", ".", "2">>
    /\ parsed.version = <<"2">>

\* C6 as stated: the version string is the tag with one leading "v" removed,
\* and no more than one, and the tag itself when it does not start with "v".
C6_SingleLeadingVStripped ==
    called =>
       parsed.shortVersionString =
          (IF tag_name # <<>> /\ tag_name[1] = "v"
           THEN SubSeq(tag_name, 2, Len(tag_name)) ELSE tag_name)

\* C6 amended: the version string is the tag with all of its leading "v"
\* characters removed (what follows the longest prefix of "v"s), and the tag
\* itself when it does not start with "v".
C6_AllLeadingVsStripped ==
    called =>
       \E n \in 0..Len(tag_name) :
          /\ \A i \in 1..n : tag_name[i] = "v"
          /\ n < Len(tag_name) => tag_name[n + 1] # "v"
          /\ parsed.shortVersionString = SubSeq(tag_name, n + 1, Len(tag_name))

C6_Witness ==
    /\ called
    /\ tag_name = <<"v", "v", "1", ".", "2">>
    /\ parsed.shortVersionString = <<"1", ".", "2">>

\* C7: get_dmg_asset returns the asset of lowest index whose name ends with
\* ".dmg", and None exactly when no name ends with ".dmg".
C7_FirstDmgAsset ==
    called =>
       /\ dmg_asset = NoAsset <=> DmgPositions(assets) = {}
       /\ DmgPositions(assets) # {} =>
             \E i \in DmgPositions(assets) :
                /\ \A j \in DmgPositions(assets) : i <= j
                /\ dmg_asset = assets[i]

C7_Witness ==
    /\ called
    /\ Len(assets) = 3
    /\ ~IsDmgName(assets[1].name)
    /\ IsDmgName(assets[2].name) /\ IsDmgName(assets[3].name)
    /\ assets[2] # assets[3]
    /\ dmg_asset = assets[2]

C9_OnlyFetchFailureIsFatal ==
    (fetch_outcome = "ok" /\ pc = "exited") =>
       exit_code = <<0>> /\ appcast = Document(channel)

\* a release that is taken whose record makes the item builder or the
\* serialiser raise
RecordRaises(r) ==
    /\ Qualifies(r)
    /\ \/ ~ValidTimestamp(r.published_at)
       \/ r.body # None /\ \E i \in 1..Len(r.body) : r.body[i] = EscapeChar

\* C9 amended: there is a third failure class.  After a successful fetch the
\* run ends with appcast.xml written and exit status 0 exactly when no release
\* that is taken has a published_at strptime rejects or a body the serialiser
\* cannot parse; otherwise the exception is uncaught, the traceback is printed,
\* the exit status is 1 and appcast.xml is left as it was.
C9_RecordFailureIsFatal ==
    (fetch_outcome = "ok" /\ pc = "exited") =>
       IF \E i \in 1..Len(releases) : RecordRaises(releases[i])
       THEN /\ exit_code = <<1>>
            /\ appcast = appcast_before
            /\ stderr[Len(stderr)].text = "Traceback (most recent call last)"
       ELSE /\ exit_code = <<0>>
            /\ idx = Len(releases)
            /\ appcast = Document(channel)

C9_Witness ==
    /\ pc = "exited"
    /\ exit_code = <<1>>
    /\ Len(releases) = 2
    /\ Len(channel) = 1
    /\ sign_log[1].how = "download error"
    /\ releases[2].published_at = BadDate
    /\ appcast = Previous

\* C10: the temporary .dmg file sign_dmg creates does not outlive the call:
\* outside sign_dmg no temporary file exists.
C10_NoTemporaryFileLeft ==
    pc \notin {"download", "sign", "unlink"} => tmp_files = 0

====
